---- MODULE Spec2Model ----
(***************************************************************************)
(* Model of package tears (mariuswilms/tears): the Cleaner registry, its   *)
(* registration call Tear and its run Down with the per-action timeout.    *)
(*                                                                         *)
(* The sources hold two revisions of Cleaner: the one with the timeout     *)
(* (a slice of cleanup functions, Down dispatching goroutines) and the     *)
(* one with the WaitGroup (main.go, Down calling the functions itself).    *)
(* impl says which one the modelled Cleaner is.                            *)
(*                                                                         *)
(* One Cleaner is modelled.  The program first registers actions (Tear,    *)
(* End), then calls Down once.  Down's loop is the driving thread; every   *)
(* action it dispatches is a goroutine with its own position.  Time is     *)
(* abstract: the timer of one wait may fire at any moment after it was     *)
(* armed, and a callable may return at any moment or never.                *)
(*                                                                         *)
(* In Spec the go statement and the entry into the callable are one step:   *)
(* the goroutine indexes the slice at once.  SpecSched schedules the        *)
(* goroutine apart from the go statement, SpecAgain calls Down a second     *)
(* time, SpecTimeout assigns Timeout, SpecNested registers the Down of      *)
(* another Cleaner and SpecEnd marks actions "run last".                    *)
(***************************************************************************)
EXTENDS Integers, Sequences, FiniteSets, TLC

\* Largest number of registered actions explored.
MaxFns == 3

\* Largest number of actions registered with a Cleaner whose Down is itself
\* registered.
MaxInner == 2

\* var Timeout = 15 * time.Second, in seconds.
DefaultTimeout == 15

\* The values Timeout is given.
Durations == {DefaultTimeout, 2 * DefaultTimeout}

\* Priorities of a CleanupAction: the neutral default and the distinguished
\* low value set by End ("run last").
PrioDefault == 0
PrioEnd == -1

\* The dynamic types Tear's type switch recognises, and some it does not.
SyncShapes == {"func() error", "cleanupFn"}
RecognisedShapes == SyncShapes \cup {"chan<- bool", "context.CancelFunc"}
OtherShapes ==
    {"func()", "func(context.Context)", "func(context.Context) error", "downFn", "string"}

\* The five input shapes registration is to accept: plain procedure,
\* fallible procedure, context-taking procedure, context-taking fallible
\* procedure, quit-signal channel.
SpecShapes ==
    {"func()", "func() error", "func(context.Context)", "func(context.Context) error",
     "chan<- bool"}

\* A value handed to Tear: its dynamic type, and whether a func value is nil.
TearInputs ==
    [shape : SyncShapes, isNil : BOOLEAN]
        \cup [shape : (RecognisedShapes \ SyncShapes) \cup OtherShapes, isNil : {FALSE}]

\* The two revisions of Cleaner.
Impls == {"timeout", "wg"}

\* What the registry stores: nil, the caller's fallible func, the closure
\* sending on a quit channel, the closure calling a cancel func, or (main.go
\* only) the closure running a func in a goroutine of its own.
Kinds == {"nil", "func", "quit", "cancel", "async"}

Entry(k) == [kind |-> k, prio |-> PrioDefault]

\* Entries of the run's error channel.
NoErr == [who |-> 0, what |-> "none"]
TimeoutErr(k) == [who |-> k, what |-> "timeout"]
FnErr(k) == [who |-> k, what |-> "err"]

VARIABLES
    impl,       \* which revision of Cleaner this is
    fns,        \* the Cleaner: sequence of registered entries, in registration order
    pc,         \* position of the program / of Down's driving loop
    run,        \* the sequence Down walks: registration indexes in sorted order
    i,          \* Down's loop variable (1-based position in run; 0 = loop over)
    errs,       \* buffered channel errs: its queued entries
    cap,        \* capacity of errs
    timer,      \* time.After(Timeout) of the current select: "off", "running", "fired"
    g,          \* g[k]: position of the goroutine dispatched for registered action k
    failed,     \* registered actions whose callable returned an error
    timedOut,   \* registered actions the loop stopped waiting for
    started,    \* log: registration indexes in the order their callables were started
    sent,       \* sent[k]: values delivered on the quit channel of action k
    result,     \* what Down returned
    lerr,       \* main.go: Down's lerr, the last error seen
    wg,         \* main.go: counter of the WaitGroup
    again,      \* Down has been called a second time
    prev,       \* log: what started was when the first call of Down returned
    Timeout,    \* the package-level variable Timeout
    atCall,     \* what Timeout was when Down was called (0 = not called)
    wait,       \* the duration the timer of the current select was armed with
    does,       \* does[k]: the registered action the goroutine dispatched for
                \* action k indexed and called (0 = it has not got there)
    nested,     \* the registered action that is another Cleaner's Down (0 = none)
    inner       \* that other Cleaner and the run of its Down

vars ==
    <<impl, fns, pc, run, i, errs, cap, timer, g, failed, timedOut, started, sent, result,
      lerr, wg, again, prev, Timeout, atCall, wait, does, nested, inner>>

\* What the single run of a single Cleaner with an untouched Timeout leaves
\* alone but for Down's reading of Timeout and the goroutines' indexing.
extVars == <<again, prev, Timeout, atCall, wait, does, nested, inner>>

runVars == <<run, i, errs, cap, timer, g, failed, timedOut, started, sent, result, lerr, wg>>

\* What the revision with the timeout does not have, and what main.go does not have.
wgVars == <<lerr, wg>>
timeoutVars == <<errs, cap, timer, timedOut>>

\* The Cleaner whose Down is registered with this one: its number of
\* registered funcs, the position of its Down, Down's i, the timer of its
\* select, its goroutines, the order its callables were started in and the
\* number of entries on its errs.
NoInner ==
    [n |-> 0, pc |-> "idle", i |-> 0, timer |-> "off", g |-> <<>>, started |-> <<>>,
     errs |-> 0]

NoResult == [kind |-> "none", count |-> 0, first |-> NoErr]
NilResult == [kind |-> "nil", count |-> 0, first |-> NoErr]

Init ==
    /\ impl \in Impls
    /\ fns = <<>>
    /\ pc = "setup"
    /\ run = <<>>
    /\ i = 0
    /\ errs = <<>>
    /\ cap = 0
    /\ timer = "off"
    /\ g = <<>>
    /\ failed = {}
    /\ timedOut = {}
    /\ started = <<>>
    /\ sent = <<>>
    /\ result = NoResult
    /\ lerr = NoErr
    /\ wg = 0
    /\ again = FALSE
    /\ prev = <<>>
    /\ Timeout = DefaultTimeout
    /\ atCall = 0
    /\ wait = 0
    /\ does = <<>>
    /\ nested = 0
    /\ inner = NoInner

----------------------------------------------------------------------------
(* Registration *)

AddSyncFunc(c, isNil) == Append(c, Entry(IF isNil THEN "nil" ELSE "func"))

AddCancelFunc(c) == Append(c, Entry("cancel"))

\* main.go only, and not reachable through Tear.
AddAsyncFunc(c) == Append(c, Entry("async"))

AddQuitChan(c) == Append(c, Entry("quit"))

\* Does Tear(v) end in panic(...)?
TearPanics(v) == v.shape \notin RecognisedShapes

\* Tear as it would be if the value were pushed before its type is looked at.
TearAppendsBeforePanic(c, v) ==
    CASE v.shape \in SyncShapes -> AddSyncFunc(c, v.isNil)
      [] v.shape = "chan<- bool" -> AddQuitChan(c)
      [] v.shape = "context.CancelFunc" -> AddCancelFunc(c)
      [] OTHER -> Append(c, Entry("nil"))

\* The Cleaner after Tear(v) on Cleaner c.
Tear(c, v) ==
    CASE v.shape \in SyncShapes -> AddSyncFunc(c, v.isNil)
      [] v.shape = "chan<- bool" -> AddQuitChan(c)
      [] v.shape = "context.CancelFunc" -> AddCancelFunc(c)
      [] OTHER -> c

\* A call of Tear during set-up.  A panic ends the program here.
TearCall ==
    \E v \in TearInputs :
        /\ pc = "setup"
        /\ TearPanics(v) \/ Len(fns) < MaxFns
        /\ fns' = Tear(fns, v)
        /\ pc' = IF TearPanics(v) THEN "panicked" ELSE "setup"
        /\ UNCHANGED <<impl, extVars, runVars>>

\* A direct call of AddAsyncFunc during set-up (main.go).
AddAsyncFuncCall ==
    /\ impl = "wg"
    /\ pc = "setup"
    /\ Len(fns) < MaxFns
    /\ fns' = AddAsyncFunc(fns)
    /\ UNCHANGED <<impl, extVars, pc, runVars>>

\* End() on the handle of the k-th registered action: mark it "run last".
End(k) ==
    /\ pc = "setup"
    /\ k \in 1..Len(fns)
    /\ fns[k].prio = PrioDefault
    /\ fns' = [fns EXCEPT ![k].prio = PrioEnd]
    /\ UNCHANGED <<impl, extVars, pc, runVars>>

EndCall == \E k \in 1..MaxFns : End(k)

----------------------------------------------------------------------------
(* Down *)

\* Registration indexes of c with priority p, in registration order.
RECURSIVE WithPrio(_, _, _)
WithPrio(c, p, k) ==
    IF k > Len(c) THEN <<>>
    ELSE (IF c[k].prio = p THEN <<k>> ELSE <<>>) \o WithPrio(c, p, k + 1)

\* The sort as it would be with the comparison turned around.
SortByPriorityDescending(c) == WithPrio(c, PrioDefault, 1) \o WithPrio(c, PrioEnd, 1)

\* Stable sort by priority ascending.
SortByPriority(c) == WithPrio(c, PrioEnd, 1) \o WithPrio(c, PrioDefault, 1)

\* Down is called: errs := make(chan error, len(*c)); i := len(*c) - 1
\* (main.go: var lerr error; i := len(td.fns) - 1).
DownCall ==
    /\ pc = "setup"
    /\ pc' = "loop"
    /\ run' = SortByPriority(fns)
    /\ i' = Len(fns)
    /\ errs' = <<>>
    /\ cap' = IF impl = "timeout" THEN Len(fns) ELSE 0
    /\ g' = [k \in 1..Len(fns) |-> "idle"]
    /\ sent' = [k \in 1..Len(fns) |-> 0]
    /\ does' = [k \in 1..Len(fns) |-> 0]
    /\ atCall' = Timeout
    /\ UNCHANGED <<impl, wgVars, fns, timer, failed, timedOut, started, result>>
    /\ UNCHANGED <<again, prev, Timeout, wait, nested, inner>>

\* The indexing as it would be if the loop walked the sequence front to back.
ActionAtForward(r, j) == r[Len(r) + 1 - j]

\* (*c)[i]: the registered action at loop position j of the walked sequence.
ActionAt(r, j) == r[j]

\* The registered action the loop is at.
Cur == ActionAt(run, i)

\* len(errs) < cap(errs): a send on errs does not block.
ErrsHasRoom == Len(errs) < cap

\* if (*c)[i] == nil { continue }
SkipNil ==
    /\ pc = "loop"
    /\ i >= 1
    /\ fns[Cur].kind = "nil"
    /\ i' = i - 1
    /\ UNCHANGED <<impl, extVars, wgVars, fns, pc, run, errs, cap, timer, g, failed, timedOut, started, sent, result>>

\* The dispatch as it would be if the loop did not wait for the goroutine.
DispatchNoWait ==
    /\ impl = "timeout"
    /\ pc = "loop"
    /\ i >= 1
    /\ fns[Cur].kind # "nil"
    /\ g' = [g EXCEPT ![Cur] = "calling"]
    /\ started' = Append(started, Cur)
    /\ i' = i - 1
    /\ does' = [does EXCEPT ![Cur] = Cur]
    /\ UNCHANGED <<impl, wgVars, fns, pc, run, errs, cap, timer, failed, timedOut, sent, result>>
    /\ UNCHANGED <<again, prev, Timeout, atCall, wait, nested, inner>>

\* done := make(chan bool); go func() { (*c)[i]() ... }(); the select arms
\* time.After(Timeout).
Dispatch ==
    /\ impl = "timeout"
    /\ pc = "loop"
    /\ i >= 1
    /\ fns[Cur].kind # "nil"
    /\ g' = [g EXCEPT ![Cur] = "calling"]
    /\ started' = Append(started, Cur)
    /\ timer' = "running"
    /\ wait' = Timeout
    /\ does' = [does EXCEPT ![Cur] = Cur]
    /\ pc' = "select"
    /\ UNCHANGED <<impl, wgVars, fns, run, i, errs, cap, failed, timedOut, sent, result>>
    /\ UNCHANGED <<again, prev, Timeout, atCall, nested, inner>>

\* The Timeout of the current wait elapses.
TimerFire ==
    /\ pc = "select"
    /\ timer = "running"
    /\ timer' = "fired"
    /\ UNCHANGED <<impl, extVars, wgVars, fns, pc, run, i, errs, cap, g, failed, timedOut, started, sent, result>>

\* case <-done: the goroutine's send on done meets the loop's receive; the
\* goroutine exits and the loop goes to its next iteration.
SelectDone ==
    /\ pc = "select"
    /\ g[Cur] = "sendDone"
    /\ g' = [g EXCEPT ![Cur] = "exited"]
    /\ timer' = "off"
    /\ i' = i - 1
    /\ pc' = "loop"
    /\ UNCHANGED <<impl, extVars, wgVars, fns, run, errs, cap, failed, timedOut, started, sent, result>>

\* The timeout branch as it would be if it also ended the goroutine.
SelectTimeoutCancels ==
    /\ pc = "select"
    /\ timer = "fired"
    /\ timedOut' = timedOut \cup {Cur}
    /\ g' = [g EXCEPT ![Cur] = "exited"]
    /\ timer' = "off"
    /\ pc' = "record"
    /\ UNCHANGED <<impl, extVars, wgVars, fns, run, i, errs, cap, failed, started, sent, result>>

\* case <-time.After(Timeout): the loop stops waiting and is about to send
\* the timeout error on errs.
SelectTimeout ==
    /\ pc = "select"
    /\ timer = "fired"
    /\ timedOut' = timedOut \cup {Cur}
    /\ timer' = "off"
    /\ pc' = "record"
    /\ UNCHANGED <<impl, extVars, wgVars, fns, run, i, errs, cap, g, failed, started, sent, result>>

\* errs <- fmt.Errorf("timeout"): blocks while the buffer of errs is full.
RecordTimeout ==
    /\ pc = "record"
    /\ ErrsHasRoom
    /\ errs' = Append(errs, TimeoutErr(Cur))
    /\ i' = i - 1
    /\ pc' = "loop"
    /\ UNCHANGED <<impl, extVars, wgVars, fns, run, cap, timer, g, failed, timedOut, started, sent, result>>

\* The test as it would be with an off-by-one.
HasErrorsOffByOne(e) == Len(e) > 1

\* len(errs) > 0
HasErrors(e) == Len(e) > 0

\* The loop is over: if len(errs) > 0 { ... } return nil
CheckErrs ==
    /\ impl = "timeout"
    /\ pc = "loop"
    /\ i = 0
    /\ IF HasErrors(errs)
          THEN pc' = "format" /\ result' = result
          ELSE pc' = "returned" /\ result' = NilResult
    /\ UNCHANGED <<impl, extVars, wgVars, fns, run, i, errs, cap, timer, g, failed, timedOut, started, sent>>

\* The return as it would be if it reported the entry queued last.
FormatErrLast ==
    /\ pc = "format"
    /\ result' = [kind |-> "error", count |-> Len(errs), first |-> errs[Len(errs)]]
    /\ errs' = SubSeq(errs, 1, Len(errs) - 1)
    /\ pc' = "returned"
    /\ UNCHANGED <<impl, extVars, wgVars, fns, run, i, cap, timer, g, failed, timedOut, started, sent>>

\* return fmt.Errorf("%d errors encountered, first error: %s", len(errs), <-errs)
FormatErr ==
    /\ pc = "format"
    /\ result' = [kind |-> "error", count |-> Len(errs), first |-> Head(errs)]
    /\ errs' = Tail(errs)
    /\ pc' = "returned"
    /\ UNCHANGED <<impl, extVars, wgVars, fns, run, i, cap, timer, g, failed, timedOut, started, sent>>

----------------------------------------------------------------------------
(* The goroutine dispatched for registered action k.  What it calls is the *)
(* action it indexed, does[k]. *)

\* The callable returns nil: a func, or the closure around a cancel func.
\* (The Down of another Cleaner returns by InnerReturn.)
FnReturnNil(k) ==
    /\ impl = "timeout"
    /\ k \in DOMAIN g
    /\ g[k] = "calling"
    /\ does[k] # nested
    /\ fns[does[k]].kind \in {"func", "cancel"}
    /\ g' = [g EXCEPT ![k] = "sendDone"]
    /\ UNCHANGED <<impl, extVars, wgVars, fns, pc, run, i, errs, cap, timer, failed, timedOut, started, sent, result>>

\* The callable returns an error; only a caller's fallible func can.
FnReturnErr(k) ==
    /\ impl = "timeout"
    /\ k \in DOMAIN g
    /\ g[k] = "calling"
    /\ does[k] # nested
    /\ fns[does[k]].kind = "func"
    /\ g' = [g EXCEPT ![k] = "sendErr"]
    /\ failed' = failed \cup {does[k]}
    /\ UNCHANGED <<impl, extVars, wgVars, fns, pc, run, i, errs, cap, timer, timedOut, started, sent, result>>

\* ch <- true completes: a consumer receives the quit signal, the closure
\* returns nil.
QuitRecv(k) ==
    /\ impl = "timeout"
    /\ k \in DOMAIN g
    /\ g[k] = "calling"
    /\ fns[does[k]].kind = "quit"
    /\ sent' = [sent EXCEPT ![does[k]] = @ + 1]
    /\ g' = [g EXCEPT ![k] = "sendDone"]
    /\ UNCHANGED <<impl, extVars, wgVars, fns, pc, run, i, errs, cap, timer, failed, timedOut, started, result>>

\* errs <- err: blocks while the buffer of errs is full.
GoSendErr(k) ==
    /\ impl = "timeout"
    /\ k \in DOMAIN g
    /\ g[k] = "sendErr"
    /\ ErrsHasRoom
    /\ errs' = Append(errs, FnErr(does[k]))
    /\ g' = [g EXCEPT ![k] = "sendDone"]
    /\ UNCHANGED <<impl, extVars, wgVars, fns, pc, run, i, cap, timer, failed, timedOut, started, sent, result>>

----------------------------------------------------------------------------
(* Down of main.go: the loop calls the functions itself *)

\* if err := td.fns[i](); ...: the loop enters the stored function.
WgCall ==
    /\ impl = "wg"
    /\ pc = "loop"
    /\ i >= 1
    /\ fns[Cur].kind \notin {"nil", "async"}
    /\ g' = [g EXCEPT ![Cur] = "calling"]
    /\ started' = Append(started, Cur)
    /\ pc' = "call"
    /\ UNCHANGED <<impl, extVars, wgVars, timeoutVars, fns, run, i, failed, sent, result>>

\* The closure of AddAsyncFunc: td.wg.Add(1); go func() { fn(); ... }();
\* return nil.
WgCallAsync ==
    /\ impl = "wg"
    /\ pc = "loop"
    /\ i >= 1
    /\ fns[Cur].kind = "async"
    /\ wg' = wg + 1
    /\ g' = [g EXCEPT ![Cur] = "calling"]
    /\ started' = Append(started, Cur)
    /\ i' = i - 1
    /\ UNCHANGED <<impl, extVars, lerr, timeoutVars, fns, pc, run, failed, sent, result>>

\* The called function returns nil.
WgReturnNil ==
    /\ pc = "call"
    /\ fns[Cur].kind \in {"func", "cancel"}
    /\ g' = [g EXCEPT ![Cur] = "exited"]
    /\ i' = i - 1
    /\ pc' = "loop"
    /\ UNCHANGED <<impl, extVars, wgVars, timeoutVars, fns, run, failed, started, sent, result>>

\* The called function returns an error: lerr = err, and the loop goes on.
WgReturnErr ==
    /\ pc = "call"
    /\ fns[Cur].kind = "func"
    /\ failed' = failed \cup {Cur}
    /\ lerr' = FnErr(Cur)
    /\ g' = [g EXCEPT ![Cur] = "exited"]
    /\ i' = i - 1
    /\ pc' = "loop"
    /\ UNCHANGED <<impl, extVars, wg, timeoutVars, fns, run, started, sent, result>>

\* ch <- true of AddChan's closure completes: a consumer receives.
WgQuitRecv ==
    /\ pc = "call"
    /\ fns[Cur].kind = "quit"
    /\ sent' = [sent EXCEPT ![Cur] = @ + 1]
    /\ g' = [g EXCEPT ![Cur] = "exited"]
    /\ i' = i - 1
    /\ pc' = "loop"
    /\ UNCHANGED <<impl, extVars, wgVars, timeoutVars, fns, run, failed, started, result>>

\* The goroutine of an async function: fn() returns (its result is
\* dropped), td.wg.Done().
WgAsyncDone(k) ==
    /\ impl = "wg"
    /\ k \in DOMAIN g
    /\ fns[k].kind = "async"
    /\ g[k] = "calling"
    /\ g' = [g EXCEPT ![k] = "exited"]
    /\ wg' = wg - 1
    /\ UNCHANGED <<impl, extVars, lerr, timeoutVars, fns, pc, run, i, failed, started, sent, result>>

AsyncDone == \E k \in 1..MaxFns : WgAsyncDone(k)

\* The loop is over: if lerr != nil { return fmt.Errorf(...) }, else on to
\* td.wg.Wait().
WgCheck ==
    /\ impl = "wg"
    /\ pc = "loop"
    /\ i = 0
    /\ IF lerr # NoErr
          THEN pc' = "returned" /\ result' = [kind |-> "error", count |-> 0, first |-> lerr]
          ELSE pc' = "wait" /\ result' = result
    /\ UNCHANGED <<impl, extVars, wgVars, timeoutVars, fns, run, i, g, failed, started, sent>>

\* td.wg.Wait() returns when the counter is zero; return nil.
WgWait ==
    /\ pc = "wait"
    /\ wg = 0
    /\ pc' = "returned"
    /\ result' = NilResult
    /\ UNCHANGED <<impl, extVars, wgVars, timeoutVars, fns, run, i, g, failed, started, sent>>

ReturnNil == \E k \in 1..MaxFns : FnReturnNil(k)
ReturnErr == \E k \in 1..MaxFns : FnReturnErr(k)
ConsumerRecv == \E k \in 1..MaxFns : QuitRecv(k)
SendErr == \E k \in 1..MaxFns : GoSendErr(k)

\* The steps of Down's own thread.
Loop ==
    \/ SkipNil
    \/ Dispatch
    \/ SelectDone
    \/ SelectTimeout
    \/ RecordTimeout
    \/ CheckErrs
    \/ FormatErr
    \/ WgCall
    \/ WgCallAsync
    \/ WgCheck
    \/ WgWait

Next ==
    \/ TearCall
    \/ AddAsyncFuncCall
    \/ DownCall
    \/ SkipNil
    \/ Dispatch
    \/ TimerFire
    \/ SelectDone
    \/ SelectTimeout
    \/ RecordTimeout
    \/ CheckErrs
    \/ FormatErr
    \/ ReturnNil
    \/ ReturnErr
    \/ ConsumerRecv
    \/ SendErr
    \/ WgCall
    \/ WgCallAsync
    \/ WgReturnNil
    \/ WgReturnErr
    \/ WgQuitRecv
    \/ AsyncDone
    \/ WgCheck
    \/ WgWait

Spec == Init /\ [][Next]_vars

\* Down's thread is always scheduled and an armed timer always fires; a
\* callable is under no obligation to return.
FairSpec == Spec /\ WF_vars(Loop) /\ WF_vars(TimerFire)

\* As FairSpec, and a goroutine that can send on errs does so.
FairGoSpec == FairSpec /\ WF_vars(SendErr)

NextEnd == Next \/ EndCall

\* The program that also marks registered actions "run last".
SpecEnd == Init /\ [][NextEnd]_vars

----------------------------------------------------------------------------
(* Down called again on the same Cleaner *)

\* The second call as it would be if the first one had drained the Cleaner.
DownAgainDrained ==
    /\ pc = "returned"
    /\ ~again
    /\ \A k \in DOMAIN g : fns[k].kind = "async" => g[k] # "calling"
    /\ again' = TRUE
    /\ prev' = started
    /\ pc' = "loop"
    /\ run' = <<>>
    /\ i' = 0
    /\ errs' = <<>>
    /\ g' = [k \in 1..Len(fns) |-> "idle"]
    /\ does' = [k \in 1..Len(fns) |-> 0]
    /\ atCall' = Timeout
    /\ timer' = "off"
    /\ failed' = {}
    /\ timedOut' = {}
    /\ started' = <<>>
    /\ result' = NoResult
    /\ lerr' = NoErr
    /\ UNCHANGED <<impl, fns, cap, sent, wg, Timeout, wait, nested, inner>>

\* Down is called once more after it returned.  It makes its channels and
\* its locals anew and walks the same slice; the goroutines the first call
\* left behind hold the first call's channels and are of no concern to this
\* one.  (main.go: the call comes when the async functions of the first
\* call are through, so that the WaitGroup counts this call's only.)
DownAgain ==
    /\ pc = "returned"
    /\ ~again
    /\ \A k \in DOMAIN g : fns[k].kind = "async" => g[k] # "calling"
    /\ again' = TRUE
    /\ prev' = started
    /\ pc' = "loop"
    /\ run' = SortByPriority(fns)
    /\ i' = Len(fns)
    /\ errs' = <<>>
    /\ g' = [k \in 1..Len(fns) |-> "idle"]
    /\ does' = [k \in 1..Len(fns) |-> 0]
    /\ atCall' = Timeout
    /\ timer' = "off"
    /\ failed' = {}
    /\ timedOut' = {}
    /\ started' = <<>>
    /\ result' = NoResult
    /\ lerr' = NoErr
    /\ UNCHANGED <<impl, fns, cap, sent, wg, Timeout, wait, nested, inner>>

NextAgain == Next \/ DownAgain

\* The program that calls Down up to twice.
SpecAgain == Init /\ [][NextAgain]_vars

----------------------------------------------------------------------------
(* The goroutine scheduled apart from the go statement *)

\* done := make(chan bool); go func() { ... }(); select: the goroutine is
\* created and the loop waits; the goroutine has not run yet.
Spawn ==
    /\ impl = "timeout"
    /\ pc = "loop"
    /\ i >= 1
    /\ fns[Cur].kind # "nil"
    /\ g' = [g EXCEPT ![Cur] = "spawned"]
    /\ timer' = "running"
    /\ wait' = Timeout
    /\ pc' = "select"
    /\ UNCHANGED <<impl, wgVars, fns, run, i, errs, cap, failed, timedOut, started, sent, result>>
    /\ UNCHANGED <<again, prev, Timeout, atCall, does, nested, inner>>

\* What the i of (*c)[i] in the closure of the goroutine dispatched for
\* action k can read when the goroutine gets to it: the i of its own
\* iteration where every iteration has its own i (Go 1.22 and later), the
\* loop's one i as it is by then where the loop has a single i (before Go
\* 1.22), read without synchronisation.  0 is the i past the front of the
\* slice.
ClosureReads(k) == {k} \cup {IF i >= 1 THEN ActionAt(run, i) ELSE 0}

\* The goroutine dispatched for action k runs: it indexes the slice and
\* calls what it finds.  An index out of range and a call of a nil func
\* are runtime panics, which end the process and all its goroutines.
GoStart(k) ==
    /\ k \in DOMAIN g
    /\ g[k] = "spawned"
    /\ \E idx \in ClosureReads(k) :
          IF idx = 0 \/ fns[idx].kind = "nil"
             THEN /\ pc' = "crashed"
                  /\ g' = [j \in DOMAIN g |-> "exited"]
                  /\ timer' = "off"
                  /\ UNCHANGED <<does, started>>
             ELSE /\ g' = [g EXCEPT ![k] = "calling"]
                  /\ does' = [does EXCEPT ![k] = idx]
                  /\ started' = Append(started, idx)
                  /\ UNCHANGED <<pc, timer>>
    /\ UNCHANGED <<impl, wgVars, fns, run, i, errs, cap, failed, timedOut, sent, result>>
    /\ UNCHANGED <<again, prev, Timeout, atCall, wait, nested, inner>>

GoStartCall == \E k \in 1..MaxFns : GoStart(k)

InitSched == Init /\ impl = "timeout"

NextSched ==
    \/ TearCall
    \/ DownCall
    \/ SkipNil
    \/ Spawn
    \/ GoStartCall
    \/ TimerFire
    \/ SelectDone
    \/ SelectTimeout
    \/ RecordTimeout
    \/ CheckErrs
    \/ FormatErr
    \/ ReturnNil
    \/ ReturnErr
    \/ ConsumerRecv
    \/ SendErr

\* The Cleaner with the timeout, its goroutines scheduled at any moment
\* after the go statement.
SpecSched == InitSched /\ [][NextSched]_vars

----------------------------------------------------------------------------
(* The Down of another Cleaner registered as an action: tear(inner.Down).  *)
(* The other Cleaner holds inner.n funcs that return nil or do not return. *)

\* Tear(f) with a caller's func() error.
TearFuncCall ==
    /\ pc = "setup"
    /\ Len(fns) < MaxFns
    /\ fns' = Tear(fns, [shape |-> "func() error", isNil |-> FALSE])
    /\ UNCHANGED <<impl, extVars, pc, runVars>>

\* Tear(inner.Down): the method value is a func() error.  (The downFn that
\* New returns is another dynamic type, see OtherShapes.)
TearInnerDown(n) ==
    /\ pc = "setup"
    /\ nested = 0
    /\ Len(fns) < MaxFns
    /\ fns' = Tear(fns, [shape |-> "func() error", isNil |-> FALSE])
    /\ nested' = Len(fns) + 1
    /\ inner' = [NoInner EXCEPT !.n = n]
    /\ UNCHANGED <<impl, pc, runVars, again, prev, Timeout, atCall, wait, does>>

TearInnerDownCall == \E n \in 1..MaxInner : TearInnerDown(n)

\* The goroutine of the outer run enters inner.Down: errs := make(...);
\* i := len(*c) - 1.
InnerDownCall ==
    /\ nested \in DOMAIN g
    /\ g[nested] = "calling"
    /\ inner.pc = "idle"
    /\ inner' = [inner EXCEPT !.pc = "loop", !.i = inner.n,
                               !.g = [j \in 1..inner.n |-> "idle"]]
    /\ UNCHANGED <<impl, fns, pc, runVars, again, prev, Timeout, atCall, wait, does, nested>>

\* The inner run's done := make(chan bool); go func() { (*c)[i]() ... }();
\* select.
InnerDispatch ==
    /\ inner.pc = "loop"
    /\ inner.i >= 1
    /\ inner' = [inner EXCEPT !.g[inner.i] = "calling",
                               !.started = Append(@, inner.i),
                               !.timer = "running",
                               !.pc = "select"]
    /\ UNCHANGED <<impl, fns, pc, runVars, again, prev, Timeout, atCall, wait, does, nested>>

\* The Timeout of the inner run's current wait elapses.
InnerTimerFire ==
    /\ inner.pc = "select"
    /\ inner.timer = "running"
    /\ inner' = [inner EXCEPT !.timer = "fired"]
    /\ UNCHANGED <<impl, fns, pc, runVars, again, prev, Timeout, atCall, wait, does, nested>>

\* A callable of the inner Cleaner returns nil.
InnerFnReturnNil(j) ==
    /\ j \in DOMAIN inner.g
    /\ inner.g[j] = "calling"
    /\ inner' = [inner EXCEPT !.g[j] = "sendDone"]
    /\ UNCHANGED <<impl, fns, pc, runVars, again, prev, Timeout, atCall, wait, does, nested>>

InnerReturnNil == \E j \in 1..MaxInner : InnerFnReturnNil(j)

\* case <-done of the inner run.
InnerSelectDone ==
    /\ inner.pc = "select"
    /\ inner.g[inner.i] = "sendDone"
    /\ inner' = [inner EXCEPT !.g[inner.i] = "exited",
                               !.timer = "off",
                               !.i = @ - 1,
                               !.pc = "loop"]
    /\ UNCHANGED <<impl, fns, pc, runVars, again, prev, Timeout, atCall, wait, does, nested>>

\* case <-time.After(Timeout) of the inner run: errs <- timeout.  No inner
\* callable returns an error, so errs has room.
InnerSelectTimeout ==
    /\ inner.pc = "select"
    /\ inner.timer = "fired"
    /\ inner' = [inner EXCEPT !.errs = @ + 1,
                               !.timer = "off",
                               !.i = @ - 1,
                               !.pc = "loop"]
    /\ UNCHANGED <<impl, fns, pc, runVars, again, prev, Timeout, atCall, wait, does, nested>>

\* The inner loop is over and inner.Down returns, to the goroutine of the
\* outer run: an error if len(errs) > 0, else nil.
InnerReturn ==
    /\ inner.pc = "loop"
    /\ inner.i = 0
    /\ inner' = [inner EXCEPT !.pc = "returned"]
    /\ IF inner.errs > 0
          THEN /\ g' = [g EXCEPT ![nested] = "sendErr"]
               /\ failed' = failed \cup {nested}
          ELSE /\ g' = [g EXCEPT ![nested] = "sendDone"]
               /\ failed' = failed
    /\ UNCHANGED <<impl, fns, pc, run, i, errs, cap, timer, timedOut, started, sent, result>>
    /\ UNCHANGED <<wgVars, again, prev, Timeout, atCall, wait, does, nested>>

InitNested == Init /\ impl = "timeout"

NextNested ==
    \/ TearFuncCall
    \/ TearInnerDownCall
    \/ DownCall
    \/ Dispatch
    \/ TimerFire
    \/ SelectDone
    \/ SelectTimeout
    \/ RecordTimeout
    \/ CheckErrs
    \/ FormatErr
    \/ ReturnNil
    \/ ReturnErr
    \/ SendErr
    \/ InnerDownCall
    \/ InnerDispatch
    \/ InnerTimerFire
    \/ InnerReturnNil
    \/ InnerSelectDone
    \/ InnerSelectTimeout
    \/ InnerReturn

\* A Cleaner of funcs, one of which may be the Down of another Cleaner.
SpecNested == InitNested /\ [][NextNested]_vars

----------------------------------------------------------------------------
(* Timeout assigned by the program *)

\* tears.Timeout = d, by any code of the program: before Down is called,
\* or by a cleanup function or another goroutine while Down runs.
SetTimeout(d) ==
    /\ impl = "timeout"
    /\ pc \in {"setup", "loop", "select", "record"}
    /\ d # Timeout
    /\ Timeout' = d
    /\ UNCHANGED <<impl, fns, pc, runVars, again, prev, atCall, wait, does, nested, inner>>

SetTimeoutCall == \E d \in Durations : SetTimeout(d)

NextTimeout == Next \/ SetTimeoutCall

\* The program that assigns Timeout.
SpecTimeout == Init /\ [][NextTimeout]_vars

----------------------------------------------------------------------------
(* Vocabulary of the properties *)

Range(s) == {s[n] : n \in DOMAIN s}

\* Down has been called.
Running == pc \notin {"setup", "panicked"}

\* The registered actions that are callable.
NonNil == {k \in 1..Len(fns) : fns[k].kind # "nil"}

DefaultPrio == {k \in 1..Len(fns) : fns[k].prio = PrioDefault}
RunLast == {k \in 1..Len(fns) : fns[k].prio = PrioEnd}

\* The callable of action k has been started in this run.
Started(k) == k \in Range(started)

\* Number of times the callable of action k has been started.
TimesStarted(k) == Cardinality({n \in DOMAIN started : started[n] = k})

\* Everything Down has recorded on errs so far, the entry it took off
\* for its result included.
Recorded == Range(errs) \cup (IF result.kind = "error" THEN {result.first} ELSE {})

\* Number of entries Down has recorded for action k.
TimesRecorded(k) ==
    Cardinality({n \in DOMAIN errs : errs[n].who = k})
        + (IF result.kind = "error" /\ result.first.who = k THEN 1 ELSE 0)

\* The registered quit channels.
Quit == {k \in 1..Len(fns) : fns[k].kind = "quit"}

----------------------------------------------------------------------------
(* Properties *)

C2_DownEventuallyReturns == (impl = "timeout" /\ pc = "loop") ~> (pc = "returned")

\* C3: when the loop has stopped waiting for an action, the timeout gets
\* recorded for it, every callable action gets started and Down returns.
C3_TimeoutThenTheRest ==
    \A k \in 1..MaxFns :
        (k \in timedOut) ~>
            (/\ TimeoutErr(k) \in Recorded
             /\ \A j \in NonNil : Started(j)
             /\ pc = "returned")

\* C4: failure isolation: no action is ever started twice, and once some
\* action has returned an error every callable action of the run still
\* gets started exactly once (stated for the Down with the timeout, where
\* no callable can hold the loop up).
C4_FailureIsolation ==
    /\ [](\A k \in 1..Len(fns) : TimesStarted(k) <= 1)
    /\ (impl = "timeout" /\ failed # {}) ~> (\A k \in NonNil : TimesStarted(k) = 1)

\* C5: a "run last" action is started only after every callable
\* default-priority action, nothing of default priority is started after
\* it, and "run last" actions start in reverse registration order.
C5_RunLastAfterDefaults ==
    Running =>
        /\ \A a, b \in DOMAIN started :
               (a < b /\ started[a] \in RunLast) =>
                   (started[b] \in RunLast /\ started[a] > started[b])
        /\ \A a \in DOMAIN started :
               started[a] \in RunLast =>
                   \A k \in NonNil \cap DefaultPrio : \E b \in 1..(a - 1) : started[b] = k

\* C5 witness: registered "run last", default, "run last"; the run started
\* the default one first, then the two marked ones, last registered first.
C5_Witness == pc = "returned" /\ RunLast = {1, 3} /\ started = <<2, 3, 1>>

\* C6: the Down with the timeout returns nil exactly when no action
\* returned an error and none timed out; on an empty Cleaner it goes
\* straight to its return, with no wait armed.
C6_NilIffNoFailure ==
    impl = "timeout" =>
        /\ pc = "returned" => (result.kind = "nil" <=> (failed = {} /\ timedOut = {}))
        /\ (Running /\ Len(fns) = 0) =>
               /\ pc = "returned" \/ (pc = "loop" /\ i = 0)
               /\ timer = "off"
               /\ result.kind # "error"

\* C6 witness: Down has returned nil after running two or more actions.
C6_Witness ==
    impl = "timeout" /\ pc = "returned" /\ result.kind = "nil" /\ Len(started) >= 2

\* C7: every action has at most one entry recorded for it, and the count
\* Down reports is the number of actions that failed or timed out.
C7_CountIsFailedActions ==
    impl = "timeout" =>
        /\ \A k \in 1..Len(fns) : TimesRecorded(k) <= 1
        /\ (pc = "returned" /\ result.kind = "error") =>
               result.count = Cardinality(failed \cup timedOut)

\* C8: a timed-out action is left alone: its goroutine is never ended by
\* the run (it is still in the callable, or past it by its own return),
\* and the loop never waits for a timed-out action again.
C8_TimeoutOnlyStopsWaiting ==
    /\ \A k \in timedOut : g[k] \in {"calling", "sendErr", "sendDone"}
    /\ pc = "select" => Cur \notin timedOut

\* C8 witness: Down has returned while a timed-out callable is still
\* running and free to return.
C8_Witness ==
    /\ pc = "returned"
    /\ \E k \in timedOut : g[k] = "calling" /\ ENABLED FnReturnNil(k)

\* C9: a quit channel gets at most one value, and exactly one once the send
\* is over; a send the loop saw complete is a success with nothing
\* recorded; and when the loop has stopped waiting for the send, the
\* timeout gets recorded for it (with which the loop moves on).
C9_QuitSignal ==
    /\ [](\A k \in Quit : Running =>
            /\ sent[k] <= 1
            /\ g[k] \in {"sendDone", "exited"} => sent[k] = 1
            /\ g[k] = "exited" => (k \notin timedOut /\ TimesRecorded(k) = 0))
    /\ \A k \in 1..MaxFns :
          (pc = "record" /\ Cur = k /\ k \in Quit) ~> (TimeoutErr(k) \in Recorded)

\* C10: a Tear that panics leaves the Cleaner as it was.
C10_PanicLeavesCleaner == [][pc' = "panicked" => fns' = fns]_vars

\* C10 witness: Tear has panicked on a Cleaner holding two or more actions.
C10_Witness == pc = "panicked" /\ Len(fns) >= 2

\* C11: Tear accepts each of the five input shapes: it does not panic,
\* appends exactly one action and leaves the actions before it as they were.
C11_FiveShapesAccepted ==
    \A v \in TearInputs :
        v.shape \in SpecShapes =>
            /\ ~TearPanics(v)
            /\ Len(Tear(fns, v)) = Len(fns) + 1
            /\ SubSeq(Tear(fns, v), 1, Len(fns)) = fns

\* The callable actions of c from position k down to 1, last registered first.
RECURSIVE LastFirst(_, _)
LastFirst(c, k) ==
    IF k = 0 THEN <<>>
    ELSE (IF c[k].kind # "nil" THEN <<k>> ELSE <<>>) \o LastFirst(c, k - 1)

Active(k) == g[k] \in {"calling", "sendErr", "sendDone"}

\* C13: in the Down with the timeout, a goroutine that is active and was
\* not timed out is the one the loop is waiting for: nothing else has been
\* started in the meantime, so two actions overlap only if the earlier one
\* was timed out.
C13_OneAtATime ==
    (impl = "timeout" /\ Running) =>
        /\ \A k \in DOMAIN g :
               (Active(k) /\ k \notin timedOut) => (pc = "select" /\ Cur = k)
        /\ Cardinality({k \in DOMAIN g : Active(k) /\ k \notin timedOut}) <= 1

\* C13 witness: two actions are running at once, the earlier one timed out.
C13_Witness ==
    /\ impl = "timeout"
    /\ \E j, k \in DOMAIN g :
          /\ j # k
          /\ g[j] = "calling" /\ j \in timedOut
          /\ g[k] = "calling" /\ k \notin timedOut

\* The registered actions that failed or timed out, in the order they
\* were started.
FailedInOrder == SelectSeq(started, LAMBDA k : k \in failed \cup timedOut)

\* C16: when the Down with the timeout reports failure, the error it
\* carries belongs to the first action, in the order of execution, that
\* failed or timed out.
C16_FirstError ==
    (impl = "timeout" /\ pc = "returned" /\ result.kind = "error") =>
        /\ FailedInOrder # <<>>
        /\ result.first.who = Head(FailedInOrder)
        /\ result.first.what \in {"err", "timeout"}

\* C16 witness: Down reported the timeout of the action run first, although
\* that action returned an error later and another action failed as well.
C16_Witness ==
    /\ impl = "timeout" /\ pc = "returned" /\ result.kind = "error"
    /\ result.count >= 2
    /\ result.first = TimeoutErr(Head(started))
    /\ FnErr(Head(started)) \in Range(errs)
    /\ \E k \in failed : k # Head(started)

\* C19: whenever the Down of main.go has returned, no async function it
\* started is still running.
C19_DownWaitsForAsync ==
    (impl = "wg" /\ pc = "returned") =>
        \A k \in DOMAIN g : fns[k].kind = "async" => g[k] # "calling"

\* C20: a goroutine whose callable has returned eventually exits.
C20_GoroutinesExit ==
    \A k \in 1..MaxFns :
        (impl = "timeout" /\ k \in DOMAIN g /\ g[k] \in {"sendErr", "sendDone"})
            ~> (k \in DOMAIN g /\ g[k] = "exited")

\* C15: no step of Down changes the registered actions or their order, and
\* a second call of Down starts the same actions in the same order as the
\* first: what it has started so far is the beginning of what the first
\* call started, and all of it once it has returned.
C15_DownKeepsRegistry ==
    /\ [][pc # "setup" => fns' = fns]_vars
    /\ [](again =>
            /\ Len(started) <= Len(prev)
            /\ started = SubSeq(prev, 1, Len(started))
            /\ pc = "returned" => started = prev)

\* C15 witness: the second call has returned after starting again both
\* actions of a Cleaner.
C15_Witness ==
    /\ again
    /\ pc = "returned"
    /\ Len(prev) = 2
    /\ started = prev

\* C17: every wait of one run of Down is armed with the value Timeout had
\* when that call of Down started, whatever is assigned to Timeout while
\* the run is in progress.
C17_TimeoutReadAtCall ==
    (impl = "timeout" /\ timer # "off") => wait = atCall

InnerOver == inner.pc = "returned"

\* C18: with the Down of an inner Cleaner registered as an action, the
\* inner actions are started once each, last registered first, and the
\* inner run is over before the outer run starts its next action and
\* before the outer Down returns.
C18_NestedRun ==
    (impl = "timeout" /\ nested # 0 /\ Running) =>
        /\ \A a \in DOMAIN inner.started : inner.started[a] = inner.n + 1 - a
        /\ (Started(nested) /\ started[Len(started)] # nested) => InnerOver
        /\ pc = "returned" => InnerOver
====
